---- MODULE Spec2Model ----
(***************************************************************************)
(* Model of the reverse-proxy gateway in src/gateway/src/gateway.js.       *)
(*                                                                         *)
(* State: the clock, the rate limiter's per-client window table, the       *)
(* requests in flight (one record per connection slot), and the front      *)
(* door's lifecycle (listening / draining / exited, pending grace timers). *)
(* One action per handler or callback of the program: the middleware chain *)
(* run on arrival, the limiter's continuation after store.increment, the   *)
(* body parser's completion, the outcomes of the awaited axios call, the   *)
(* response 'finish' callback, the caller closing its connection, the     *)
(* signal handler, the server 'close' callback and the grace timer.        *)
(*                                                                         *)
(* Library calls are modelled by their documented behaviour:               *)
(*   express-rate-limit (MemoryStore): fixed window per key, increment is  *)
(*     one synchronous step, a request is refused when totalHits > max;    *)
(*   axios (node adapter): validateStatus decides resolve/reject, a        *)
(*     redirect answer is followed unless maxRedirects is 0, errors carry  *)
(*     a code;                                                             *)
(*   express.json(): parses a JSON body, answers 400 on a malformed one;   *)
(*   net.Server.close(cb): cb runs on 'close', once no connection is left. *)
(***************************************************************************)
EXTENDS Integers, Naturals, Sequences, FiniteSets, TLC

\* ------------------------------------------------------------------ bounds

\* connection slots: requests in flight at once
MaxInFlight == 2
\* the limiter specification stops counting a client at this many hits
MaxHits == 62
\* ... and any other client at this many
MaxHitsOther == 1
\* the pipeline and shutdown specifications stop counting a client here
MaxHitsSmall == 2
\* ... and take this many requests at once
MaxPipelined == 1
\* the clock stops here (ms) in the limiter specification
MaxNowLimiter == 60000
\* the clock stops here (ms) in the pipeline specification
MaxNowPipeline == 30000
\* the clock stops here (ms) in the shutdown specification
MaxNowShutdown == 20000
\* termination signals delivered in one run
MaxSignals == 2
\* redirects followed within one upstream call (below axios's own limit)
MaxFollowed == 1

\* ------------------------------------------------------- program constants

\* rateLimit({ windowMs: 60 * 1000 })
\* (variant: a window twice as long)
windowMs_double == 2 * 60000
windowMs == 60000
\* rateLimit({ max: 60 })
\* (variant: capacity off by one)
max_raised == 60 + 1
max == 60
\* axios({ timeout: 30000 })
timeout == 30000
\* setTimeout(..., 10_000) in shutdown
graceMs == 10000
\* process.exit(1) in the grace timer
\* (variant: the forced exit reports success)
forceExitCode_zero == 1 - 1
forceExitCode == 1
\* process.exit(0) in the server.close callback
cleanExitCode == 0

Slots == 1..MaxInFlight

\* the value of a header that is not on the request
Absent == "<absent>"
\* randomUUID() for the request in slot r
uuid(r) == IF r = 1 THEN "uuid-1" ELSE IF r = 2 THEN "uuid-2" ELSE "uuid-3"
GeneratedIds == {uuid(r) : r \in Slots}

VARIABLES
    now,        \* Date.now(), ms
    store,      \* MemoryStore of apiLimiter: client -> [totalHits, resetTime]
    admitted,   \* per client: requests let through in the client's current window
    reqs,       \* slot -> request/response record
    server,     \* "listening" | "draining" | "closed"
    exitCode,   \* -1 while the process runs, else the code given to process.exit
    timers,     \* the deadlines of the pending grace timers (one per signal)
    closeCbs,   \* server.close callbacks waiting for 'close'
    signals,    \* signals handled so far
    firstSignalAt \* Date.now() at the first signal, -1 before it

vars == <<now, store, admitted, reqs, server, exitCode, timers, closeCbs, signals, firstSignalAt>>

Clients == {"10.0.0.1", "10.0.0.2"}

\* a response body: what it is, its "error" key and its "requestId" key
Body(kind, error, id) == [kind |-> kind, error |-> error, requestId |-> id]
NoBody == Body("none", "", "")

NoUrl == [base |-> "", path |-> "", query |-> <<>>]

Idle ==
    [stage |-> "idle", path |-> "none", client |-> "none", inId |-> Absent,
     body |-> "none", requestId |-> "", resId |-> "", upId |-> Absent,
     logs |-> <<>>, totalHits |-> 0, win |-> 0, decision |-> "none", proxied |-> FALSE,
     calls |-> 0, hops |-> 0, deadline |-> 0, backend |-> "none",
     upStatus |-> 0, errCode |-> "none", status |-> 0, resBody |-> NoBody,
     writes |-> 0, escalated |-> FALSE, headersSentAtCatch |-> FALSE,
     errAxios |-> FALSE, errResponse |-> 0, upBody |-> "", sentBody |-> "",
     query |-> <<>>, upHeaders |-> {},
     upData |-> [type |-> "none", text |-> ""], upUrl |-> NoUrl,
     aborted |-> FALSE]

NoClient == [totalHits |-> 0, resetTime |-> 0, windowStart |-> 0]

Init ==
    /\ now = 0
    /\ store = [c \in Clients |-> NoClient]
    /\ admitted = [c \in Clients |-> 0]
    /\ reqs = [r \in Slots |-> Idle]
    /\ server = "listening"
    /\ exitCode = -1
    /\ timers = {}
    /\ closeCbs = 0
    /\ signals = 0
    /\ firstSignalAt = -1

Running == exitCode = -1
\* The continuation of `await store.increment(key)` is a microtask: it runs
\* before the event loop takes its next I/O callback or timer.
NoMicrotask == \A r \in Slots : reqs[r].stage # "counted"
\* guard of every I/O callback and timer
Loop == Running /\ NoMicrotask
Free(r) == reqs[r].stage = "idle"
InFlight == {r \in Slots : ~Free(r)}
\* the connections the server still holds
Connected == {r \in InFlight : ~reqs[r].aborted}
\* a new connection takes the lowest free slot
FirstFree(r) == Free(r) /\ \A q \in Slots : q < r => ~Free(q)

LogEvent(phase, id) == [phase |-> phase, requestId |-> id]

\* ------------------------------------------------ request-id middleware

\* const requestId = existingId || randomUUID();
\* (variant: the inbound id is ignored)
Correlate_fresh(existingId, fresh) == fresh
Correlate(existingId, fresh) ==
    IF existingId = Absent \/ existingId = "" THEN fresh ELSE existingId

\* req.requestId = requestId; res.setHeader('x-request-id', requestId)
Correlated(r, c, path, inId, body, query) ==
    [Idle EXCEPT !.path = path, !.client = c, !.inId = inId, !.body = body,
                 !.query = query,
                 !.requestId = Correlate(inId, uuid(r)),
                 !.resId = Correlate(inId, uuid(r))]

\* ------------------------------------------------- values and conversions

\* a JavaScript value: a string, or an object given by its compact JSON text
StringValue(text) == [type |-> "string", text |-> text]
ObjectValue(json) == [type |-> "object", text |-> json]

JsonBody == "{\"msg\":\"not found\"}"
SpacedJsonBody == "{ \"msg\": \"not found\" }"
TextBody == "hello"

\* JSON.parse on the bodies above: the value, or "SyntaxError"
JSONParse(raw) ==
    IF raw \in {JsonBody, SpacedJsonBody} THEN ObjectValue(JsonBody)
    ELSE [type |-> "SyntaxError", text |-> raw]

\* JSON.stringify: a string is quoted, an object written compactly
JSONStringify(v) ==
    IF v.type = "string" THEN "\"" \o v.text \o "\"" ELSE v.text

\* axios's default transformResponse: a non-empty body is parsed as JSON, and
\* kept as the string it is when that fails
ResponseData(raw) ==
    IF raw # "" /\ JSONParse(raw).type # "SyntaxError"
    THEN JSONParse(raw) ELSE StringValue(raw)

\* --------------------------------------------------------- proxyRequest

\* res.status(s).json(b): the one place a response is written
Respond(rec, s, b) ==
    [rec EXCEPT !.status = s, !.resBody = b, !.writes = rec.writes + 1,
                !.deadline = 0, !.stage = "done"]

\* const backendUrl = process.env.BACKEND_URL || 'http://backend:3847'
backendUrl == "http://backend:3847"

\* the path of req.url, without the query string
UrlPath(path) == IF path = "api" THEN "/api/x" ELSE "/health"

\* the inbound request: its body bytes and its content-type header
InboundBody(body) ==
    CASE body = "json" -> JsonBody
      [] body = "badjson" -> "{\"msg\":"
      [] body = "text" -> TextBody
      [] OTHER -> ""
ContentType(body) ==
    CASE body \in {"json", "badjson"} -> "application/json"
      [] body = "text" -> "text/plain"
      [] OTHER -> Absent

\* the headers of the inbound request, names in lower case as node gives them
InboundHeaders(rec) ==
    {<<"host", "gateway:5921">>, <<"connection", "keep-alive">>,
     <<"keep-alive", "timeout=5">>, <<"accept", "*/*">>}
    \cup (IF rec.inId = Absent THEN {} ELSE {<<"x-request-id", rec.inId>>})
    \cup (IF rec.body = "none" THEN {}
          ELSE {<<"content-type", ContentType(rec.body)>>,
                <<"transfer-encoding", "chunked">>})

\* req.body after express.json(): the parsed object of an application/json
\* body, and the empty object when there is no body or it is of another type
EmptyObject == ObjectValue("{}")
ReqBody(body) ==
    IF ContentType(body) = "application/json" /\ InboundBody(body) # ""
    THEN JSONParse(InboundBody(body)) ELSE EmptyObject

\* req.body && Object.keys(req.body).length > 0
HasKeys(v) == v.type = "object" /\ v.text # "{}"

\* lines 79-88: the headers of the upstream request
\* (variant: the inbound headers are copied first)
Headers_copied(rec) ==
    InboundHeaders(rec)
    \cup {<<"X-Forwarded-For", rec.client>>, <<"X-Forwarded-Proto", "http">>,
          <<"x-request-id", rec.requestId>>}
Headers(rec) ==
    (IF HasKeys(ReqBody(rec.body))
     THEN {<<"Content-Type", IF ContentType(rec.body) = Absent THEN "application/json"
                             ELSE ContentType(rec.body)>>}
     ELSE {})
    \cup {<<"X-Forwarded-For", rec.client>>, <<"X-Forwarded-Proto", "http">>,
          <<"x-request-id", rec.requestId>>}

\* req.query: the parsed query string, parameter -> value
ReqQuery(query) ==
    [k \in {query[i][1] : i \in 1..Len(query)} |->
        query[CHOOSE i \in 1..Len(query) : query[i][1] = k][2]]
\* axios serialises params in the order of the object's keys
SerializeParams(query, params) ==
    [i \in 1..Len(query) |-> <<query[i][1], params[query[i][1]]>>]
\* axios buildURL(url, params): the serialised params are appended to the
\* url, after those it already has
BuildURL(url, query, params) ==
    [url EXCEPT !.query = url.query \o SerializeParams(query, params)]

\* const targetUrl = `${backendUrl}${req.url}`: path and query string verbatim
TargetUrl(rec) == [base |-> backendUrl, path |-> UrlPath(rec.path), query |-> rec.query]

\* lines 59-100: log the dispatch, build the headers, call axios once
UpstreamHeaderId(rec) == rec.requestId

ProxyStart(rec) ==
    [rec EXCEPT !.proxied = TRUE,
                !.logs = Append(rec.logs, LogEvent("outbound", rec.requestId)),
                !.upId = UpstreamHeaderId(rec),
                !.upHeaders = Headers(rec),
                !.upData = ReqBody(rec.body),
                !.upUrl = BuildURL(TargetUrl(rec), rec.query, ReqQuery(rec.query)),
                !.calls = rec.calls + 1,
                !.hops = rec.hops + 1,
                !.deadline = now + timeout,
                !.backend = "pending",
                !.stage = "upstream"]

\* app.get('/health', ...): res.json({ ok: true })
Health(rec) == Respond(rec, 200, Body("ok", "", ""))

\* app.all('/api/*', proxyRequest); app.get('/health', ...)
Dispatch(rec) == IF rec.path = "api" THEN ProxyStart(rec) ELSE Health(rec)

\* app.use(express.json()): a request without body, or with a body that is
\* not application/json, passes straight through
AfterLimiter(rec) ==
    IF ContentType(rec.body) # "application/json"
    THEN Dispatch(rec) ELSE [rec EXCEPT !.stage = "parser"]

\* app.use('/api', apiLimiter)
\* (variant: the limiter mounted on every path)
LimitedPath_all(path) == TRUE
LimitedPath(path) == path = "api"

Arrive(r, c, path, inId, body, query) ==
    /\ Loop
    /\ server = "listening"
    /\ FirstFree(r)
    /\ LET rec == Correlated(r, c, path, inId, body, query) IN
         reqs' = [reqs EXCEPT ![r] =
                    IF LimitedPath(path) THEN [rec EXCEPT !.stage = "limiter"]
                    ELSE AfterLimiter(rec)]
    /\ UNCHANGED <<now, store, admitted, server, exitCode, timers, closeCbs,
                   signals, firstSignalAt>>

\* ----------------------------------------------------------- apiLimiter

\* MemoryStore: a client's window is over once its reset time is reached
Expired(cl, t) == cl.resetTime = 0 \/ cl.resetTime <= t

\* MemoryStore.increment(key): one step, no await inside
Incremented(cl, t) ==
    IF Expired(cl, t)
    THEN [totalHits |-> 1, resetTime |-> t + windowMs, windowStart |-> t]
    ELSE [cl EXCEPT !.totalHits = cl.totalHits + 1]

\* const { totalHits, resetTime } = await store.increment(key)
LimiterIncrement(r) ==
    /\ Running
    /\ reqs[r].stage = "limiter"
    /\ LET c == reqs[r].client
           cl == Incremented(store[c], now) IN
         /\ store' = [store EXCEPT ![c] = cl]
         /\ admitted' = IF Expired(store[c], now)
                         THEN [admitted EXCEPT ![c] = 0] ELSE admitted
         /\ reqs' = [reqs EXCEPT ![r].totalHits = cl.totalHits,
                                  ![r].win = cl.resetTime,
                                  ![r].stage = "counted"]
    /\ UNCHANGED <<now, server, exitCode, timers, closeCbs, signals, firstSignalAt>>

\* if (totalHits > max) handler(...) else next()
OverLimit(totalHits) == totalHits > max

\* the default handler: res.status(429).send(message), next() is not called
\* (variant: the handler falls through to next())
Limited_next(rec) == AfterLimiter([rec EXCEPT !.decision = "reject"])
Limited(rec) == Respond([rec EXCEPT !.decision = "reject"], 429, Body("too-many-requests", "", ""))

LimiterDecide(r) ==
    /\ Running
    /\ reqs[r].stage = "counted"
    /\ LET rec == [reqs[r] EXCEPT !.totalHits = 0, !.win = 0]
           c == rec.client IN
         IF OverLimit(reqs[r].totalHits)
         THEN /\ reqs' = [reqs EXCEPT ![r] = Limited(rec)]
              /\ UNCHANGED admitted
         ELSE /\ reqs' = [reqs EXCEPT ![r] = AfterLimiter([rec EXCEPT !.decision = "admit"])]
              /\ admitted' = IF reqs[r].win = store[c].resetTime
                              THEN [admitted EXCEPT ![c] = admitted[c] + 1]
                              ELSE admitted
    /\ UNCHANGED <<now, store, server, exitCode, timers, closeCbs, signals, firstSignalAt>>

\* --------------------------------------------------------- express.json

\* the body has been read: parse it, or pass the error to the default
\* error handler (400), which ends the request without reaching a route
BodyParsed(r) ==
    /\ Loop
    /\ reqs[r].stage = "parser"
    /\ reqs' = [reqs EXCEPT ![r] =
                  IF reqs[r].body = "badjson"
                  THEN Respond(reqs[r], 400, Body("parse-error", "", ""))
                  ELSE Dispatch(reqs[r])]
    /\ UNCHANGED <<now, store, admitted, server, exitCode, timers, closeCbs,
                   signals, firstSignalAt>>

\* ------------------------------------------- proxyRequest, after the await

\* lines 102-116: the call has resolved; log the result
Answered(rec, st) ==
    [rec EXCEPT !.logs = Append(rec.logs, LogEvent("inbound", rec.requestId)),
                !.upStatus = IF rec.upStatus = 0 THEN st ELSE rec.upStatus,
                !.backend = "answered"]

\* res.json(response.data)
ResJson(v) == JSONStringify(v)

\* lines 102-127: log the result, relay status and body
Relay(rec, st, raw) ==
    Respond([Answered(rec, st) EXCEPT !.upBody = raw,
                                      !.sentBody = ResJson(ResponseData(raw))],
            st, Body("upstream", "", ""))

\* lines 128-141: the error as the catch block finds it (error.code,
\* axios.isAxiosError(error), error.response.status, res.headersSent), logged
Caught(rec, isAxios, code, hasResponse, responseStatus) ==
    [rec EXCEPT !.logs = Append(rec.logs, LogEvent("error", rec.requestId)),
                !.errCode = code,
                !.errAxios = isAxios,
                !.errResponse = IF hasResponse THEN responseStatus ELSE 0,
                !.headersSentAtCatch = rec.writes > 0]

\* lines 128-169: log the error, then map it to a response
\* (variant: no fallback for an error that is neither refused nor timed out;
\* it leaves proxyRequest as a rejected promise)
Catch_rethrow(rec, isAxios, code, hasResponse, responseStatus) ==
    LET r1 == Caught(rec, isAxios, code, hasResponse, responseStatus) IN
    IF isAxios /\ code = "ECONNREFUSED"
    THEN Respond(r1, 503, Body("error", "Backend service unavailable", rec.requestId))
    ELSE IF isAxios /\ code \in {"ETIMEDOUT", "ECONNABORTED"}
    THEN Respond(r1, 504, Body("error", "Backend service timeout", rec.requestId))
    ELSE [r1 EXCEPT !.stage = "rejected", !.deadline = 0]
\* (variant: the last branch writes 502 without looking at res.headersSent)
Catch_unguarded(rec, isAxios, code, hasResponse, responseStatus) ==
    LET r1 == Caught(rec, isAxios, code, hasResponse, responseStatus) IN
    IF isAxios /\ code = "ECONNREFUSED"
    THEN Respond(r1, 503, Body("error", "Backend service unavailable", rec.requestId))
    ELSE IF isAxios /\ code \in {"ETIMEDOUT", "ECONNABORTED"}
    THEN Respond(r1, 504, Body("error", "Backend service timeout", rec.requestId))
    ELSE IF isAxios /\ hasResponse
    THEN Respond(r1, responseStatus, Body("upstream", "", ""))
    ELSE Respond(r1, 502, Body("error", "bad gateway", rec.requestId))
\* (variant: a carried response is looked at before the error code)
Catch_responseFirst(rec, isAxios, code, hasResponse, responseStatus) ==
    LET r1 == Caught(rec, isAxios, code, hasResponse, responseStatus) IN
    IF isAxios /\ hasResponse
    THEN Respond(r1, responseStatus, Body("upstream", "", ""))
    ELSE IF isAxios /\ code = "ECONNREFUSED"
    THEN Respond(r1, 503, Body("error", "Backend service unavailable", rec.requestId))
    ELSE IF isAxios /\ code \in {"ETIMEDOUT", "ECONNABORTED"}
    THEN Respond(r1, 504, Body("error", "Backend service timeout", rec.requestId))
    ELSE IF rec.writes = 0
    THEN Respond(r1, 502, Body("error", "bad gateway", rec.requestId))
    ELSE [r1 EXCEPT !.escalated = TRUE, !.stage = "done"]
Catch(rec, isAxios, code, hasResponse, responseStatus) ==
    LET r1 == Caught(rec, isAxios, code, hasResponse, responseStatus) IN
    IF isAxios /\ code = "ECONNREFUSED"
    THEN Respond(r1, 503, Body("error", "Backend service unavailable", rec.requestId))
    ELSE IF isAxios /\ code \in {"ETIMEDOUT", "ECONNABORTED"}
    THEN Respond(r1, 504, Body("error", "Backend service timeout", rec.requestId))
    ELSE IF isAxios /\ hasResponse
    THEN Respond(r1, responseStatus, Body("upstream", "", ""))
    ELSE IF rec.writes = 0
    THEN Respond(r1, 502, Body("error", "bad gateway", rec.requestId))
    ELSE [r1 EXCEPT !.escalated = TRUE, !.stage = "done"]

\* validateStatus: () => true: every status resolves the call
ValidateStatus(st) == TRUE

\* the upstream's final answer arrives before the timeout
UpstreamResponds(r, st, raw) ==
    /\ Loop
    /\ reqs[r].stage = "upstream"
    /\ now < reqs[r].deadline
    /\ reqs' = [reqs EXCEPT ![r] =
                  IF ValidateStatus(st)
                  THEN Relay(reqs[r], st, raw)
                  ELSE Catch([reqs[r] EXCEPT !.upStatus = st, !.backend = "answered"],
                             TRUE, "ERR_BAD_RESPONSE", TRUE, st)]
    /\ UNCHANGED <<now, store, admitted, server, exitCode, timers, closeCbs,
                   signals, firstSignalAt>>

\* a statement of lines 118-127 throws (not an axios error): either while
\* status and headers are being set, before anything is written, or from
\* res.json once the head of the response has gone out
RelayThrows(r, st, sent) ==
    /\ Loop
    /\ reqs[r].stage = "upstream"
    /\ now < reqs[r].deadline
    /\ reqs' = [reqs EXCEPT ![r] =
                  Catch(IF sent THEN Relay(reqs[r], st, JsonBody) ELSE Answered(reqs[r], st),
                        FALSE, "ERR_INVALID_CHAR", FALSE, 0)]
    /\ UNCHANGED <<now, store, admitted, server, exitCode, timers, closeCbs,
                   signals, firstSignalAt>>

\* the upstream answers 3xx with a Location: axios is given no maxRedirects,
\* so it follows the redirect with another request inside the same call
UpstreamRedirects(r) ==
    /\ Loop
    /\ reqs[r].stage = "upstream"
    /\ now < reqs[r].deadline
    /\ reqs' = [reqs EXCEPT ![r].upStatus = IF reqs[r].upStatus = 0 THEN 302
                                             ELSE reqs[r].upStatus,
                            ![r].hops = reqs[r].hops + 1]
    /\ UNCHANGED <<now, store, admitted, server, exitCode, timers, closeCbs,
                   signals, firstSignalAt>>

\* the call fails without a response: error.code is set, error.response is not
UpstreamFails(r, code) ==
    /\ Loop
    /\ reqs[r].stage = "upstream"
    /\ now < reqs[r].deadline
    /\ reqs' = [reqs EXCEPT ![r] =
                  Catch([reqs[r] EXCEPT !.backend = "failed"], TRUE, code, FALSE, 0)]
    /\ UNCHANGED <<now, store, admitted, server, exitCode, timers, closeCbs,
                   signals, firstSignalAt>>

\* the call fails with an error that carries a response (error.response)
UpstreamFailsWithResponse(r, code, st) ==
    /\ Loop
    /\ reqs[r].stage = "upstream"
    /\ now < reqs[r].deadline
    /\ reqs' = [reqs EXCEPT ![r] =
                  Catch([reqs[r] EXCEPT !.backend = "answered"], TRUE, code, TRUE, st)]
    /\ UNCHANGED <<now, store, admitted, server, exitCode, timers, closeCbs,
                   signals, firstSignalAt>>

\* timeout: 30000 elapses first: axios aborts the request and rejects
AxiosTimeout(r) ==
    /\ Loop
    /\ reqs[r].stage = "upstream"
    /\ now >= reqs[r].deadline
    /\ reqs' = [reqs EXCEPT ![r] = Catch(reqs[r], TRUE, "ECONNABORTED", FALSE, 0)]
    /\ UNCHANGED <<now, store, admitted, server, exitCode, timers, closeCbs,
                   signals, firstSignalAt>>

\* an answer to a call that has already been rejected: the awaited promise
\* is settled and the request aborted, so nothing in proxyRequest runs again
\* (variant: the late answer is relayed as well)
LateAnswer_relayed(rec) ==
    [rec EXCEPT !.backend = "answered", !.status = 200,
                !.resBody = Body("upstream", "", ""), !.writes = rec.writes + 1]
LateAnswer(rec) == [rec EXCEPT !.backend = "answered"]

LateUpstreamResponse(r) ==
    /\ Loop
    /\ reqs[r].stage = "done"
    /\ reqs[r].backend = "pending"
    /\ reqs' = [reqs EXCEPT ![r] = LateAnswer(reqs[r])]
    /\ UNCHANGED <<now, store, admitted, server, exitCode, timers, closeCbs,
                   signals, firstSignalAt>>

\* the caller closes the connection while the upstream call is pending; the
\* call is not cancelled and proxyRequest goes on, writing to a closed socket
ClientDisconnects(r) ==
    /\ Loop
    /\ reqs[r].stage = "upstream"
    /\ ~reqs[r].aborted
    /\ reqs' = [reqs EXCEPT ![r].aborted = TRUE]
    /\ UNCHANGED <<now, store, admitted, server, exitCode, timers, closeCbs,
                   signals, firstSignalAt>>

\* a response ended on a closed socket is never handed to the network: the
\* response emits 'close' only, no 'finish', and no listener of the program
\* runs. The slot keeps the request's ids.
Abandon(r) ==
    /\ Loop
    /\ reqs[r].stage = "done"
    /\ reqs[r].aborted
    /\ reqs' = [reqs EXCEPT ![r] =
                  [Idle EXCEPT !.inId = reqs[r].inId,
                               !.requestId = reqs[r].requestId,
                               !.resId = reqs[r].resId]]
    /\ UNCHANGED <<now, store, admitted, server, exitCode, timers, closeCbs,
                   signals, firstSignalAt>>

\* res.on('finish', ...): the summary event, once the response is written out.
\* The request is over; its slot keeps only its ids and that last event.
Finish(r) ==
    /\ Loop
    /\ reqs[r].stage = "done"
    /\ ~reqs[r].aborted
    /\ reqs' = [reqs EXCEPT ![r] =
                  [Idle EXCEPT !.inId = reqs[r].inId,
                               !.requestId = reqs[r].requestId,
                               !.resId = reqs[r].resId,
                               !.logs = <<LogEvent("summary", reqs[r].requestId)>>]]
    /\ UNCHANGED <<now, store, admitted, server, exitCode, timers, closeCbs,
                   signals, firstSignalAt>>

\* ------------------------------------------------------------- shutdown

\* process.on(sig, () => shutdown(sig)): server.close(cb) and a grace timer
\* (variant: a further signal replaces the pending grace timer)
Signal_rearm ==
    /\ Loop
    /\ server' = IF server = "listening" THEN "draining" ELSE server
    /\ closeCbs' = closeCbs + 1
    /\ timers' = {now + graceMs}
    /\ signals' = signals + 1
    /\ firstSignalAt' = IF firstSignalAt = -1 THEN now ELSE firstSignalAt
    /\ UNCHANGED <<now, store, admitted, reqs, exitCode>>
Signal ==
    /\ Loop
    /\ server' = IF server = "listening" THEN "draining" ELSE server
    /\ closeCbs' = closeCbs + 1
    /\ timers' = timers \cup {now + graceMs}
    /\ signals' = signals + 1
    /\ firstSignalAt' = IF firstSignalAt = -1 THEN now ELSE firstSignalAt
    /\ UNCHANGED <<now, store, admitted, reqs, exitCode>>

\* 'close': the listening socket is closed and no connection is busy;
\* the first callback registered by server.close runs process.exit(0)
ServerClosed ==
    /\ Loop
    /\ server = "draining"
    /\ closeCbs > 0
    /\ Connected = {}
    /\ server' = "closed"
    /\ exitCode' = cleanExitCode
    /\ UNCHANGED <<now, store, admitted, reqs, timers, closeCbs, signals, firstSignalAt>>

\* the setTimeout callback: process.exit(1)
GraceTimerFires ==
    /\ Loop
    /\ \E d \in timers : now >= d
    /\ exitCode' = forceExitCode
    /\ UNCHANGED <<now, store, admitted, reqs, server, timers, closeCbs, signals,
                   firstSignalAt>>

\* the clock advances; a pending grace timer is not jumped over
Tick(d) ==
    /\ Loop
    /\ \A t \in timers : now + d <= t
    /\ now' = now + d
    /\ UNCHANGED <<store, admitted, reqs, server, exitCode, timers, closeCbs,
                   signals, firstSignalAt>>

\* ------------------------------------------------------- specifications

\* requests of client c counted, or about to be, in its window
Counting(c) ==
    (IF Expired(store[c], now) THEN 0 ELSE store[c].totalHits)
      + Cardinality({r \in Slots : reqs[r].stage = "limiter" /\ reqs[r].client = c})

\* The limiter: one client sends until it is refused, and over a window's
\* end, while a second client sends a few requests of its own.
HitsBound(c) == IF c = "10.0.0.1" THEN MaxHits ELSE MaxHitsOther

ArriveApiL ==
    \E r \in Slots, c \in Clients :
        Counting(c) < HitsBound(c) /\ Arrive(r, c, "api", Absent, "none", <<>>)
ArriveHealthL ==
    \E r \in Slots : Arrive(r, "10.0.0.1", "health", Absent, "none", <<>>)
\* the clock jumps by one window length (60 s)
TickL == now + 60000 <= MaxNowLimiter /\ Tick(60000)

NextLimiter ==
    \/ ArriveApiL
    \/ ArriveHealthL
    \/ \E r \in Slots : LimiterIncrement(r)
    \/ \E r \in Slots : LimiterDecide(r)
    \/ \E r \in Slots : UpstreamResponds(r, 200, JsonBody)
    \/ \E r \in Slots : UpstreamFails(r, "ECONNREFUSED")
    \/ \E r \in Slots : Finish(r)
    \/ TickL

SpecLimiter == Init /\ [][NextLimiter]_vars

\* The pipeline: every kind of request and of upstream outcome, few requests.
InIds == {Absent, "", "ABC"}
Bodies == {"none", "json", "badjson"}
Statuses == {200, 404}
ErrorCodes == {"ECONNREFUSED", "ENOTFOUND", "ETIMEDOUT"}
Room == Cardinality(InFlight) < MaxPipelined

\* a request late enough that its upstream timeout lies beyond the clock's
\* bound is left out
ArriveApi ==
    \E r \in Slots, c \in {"10.0.0.1"}, i \in InIds, b \in Bodies :
        /\ Room /\ Counting(c) < MaxHitsSmall /\ now + timeout <= MaxNowPipeline
        /\ Arrive(r, c, "api", i, b, <<>>)
\* GET /health: no body
ArriveHealth ==
    \E r \in Slots, c \in {"10.0.0.1"}, i \in InIds :
        Room /\ Arrive(r, c, "health", i, "none", <<>>)
FollowRedirect ==
    \E r \in Slots : reqs[r].hops <= MaxFollowed /\ UpstreamRedirects(r)
\* ... and so is a step towards the upstream call of a request that waited
LimiterIncrementP ==
    \E r \in Slots : now + timeout <= MaxNowPipeline /\ LimiterIncrement(r)
BodyParsedP ==
    \E r \in Slots : now + timeout <= MaxNowPipeline /\ BodyParsed(r)
\* the clock jumps by one upstream timeout (30 s)
TickP == now + 30000 <= MaxNowPipeline /\ Tick(30000)

Next ==
    \/ ArriveApi
    \/ ArriveHealth
    \/ LimiterIncrementP
    \/ \E r \in Slots : LimiterDecide(r)
    \/ BodyParsedP
    \/ \E r \in Slots, st \in Statuses : UpstreamResponds(r, st, JsonBody)
    \/ \E r \in Slots, sent \in BOOLEAN : RelayThrows(r, 200, sent)
    \/ FollowRedirect
    \/ \E r \in Slots, code \in ErrorCodes : UpstreamFails(r, code)
    \/ \E r \in Slots : AxiosTimeout(r)
    \/ \E r \in Slots : LateUpstreamResponse(r)
    \/ \E r \in Slots : Finish(r)
    \/ TickP

Spec == Init /\ [][Next]_vars

\* The event loop keeps running: time passes, the timeout armed by axios
\* fires when due, and a pending promise continuation runs.
SpecFair ==
    /\ Init /\ [][Next]_vars
    /\ WF_vars(TickP)
    /\ WF_vars(\E r \in Slots : AxiosTimeout(r))
    /\ WF_vars(\E r \in Slots : LimiterDecide(r))

\* Building the upstream request and relaying its answer: every kind of
\* inbound body and query and of upstream body, and a caller that goes away.
UpstreamBodies == {JsonBody, SpacedJsonBody, TextBody}
BuildBodies == {"none", "json", "text"}
Queries == {<<>>, <<<<"a", "1">>>>, <<<<"a", "1">>, <<"b", "2">>>>}
ArriveApiB ==
    \E r \in Slots, i \in {Absent, "ABC"}, b \in BuildBodies, q \in Queries :
        /\ Room /\ Counting("10.0.0.1") < MaxHitsSmall
        /\ Arrive(r, "10.0.0.1", "api", i, b, q)

NextBuild ==
    \/ ArriveApiB
    \/ \E r \in Slots : LimiterIncrement(r)
    \/ \E r \in Slots : LimiterDecide(r)
    \/ \E r \in Slots : BodyParsed(r)
    \/ \E r \in Slots, raw \in UpstreamBodies : UpstreamResponds(r, 200, raw)
    \/ \E r \in Slots : ClientDisconnects(r)
    \/ \E r \in Slots : Abandon(r)
    \/ \E r \in Slots : Finish(r)

SpecBuild == Init /\ [][NextBuild]_vars

\* The catch block: every shape of error it can be handed.
CatchCodes == {"ECONNREFUSED", "ETIMEDOUT", "ECONNABORTED", "ERR_BAD_RESPONSE"}
ArriveApiC ==
    \E r \in Slots, c \in Clients, i \in InIds :
        /\ Room /\ Counting(c) < MaxHitsSmall
        /\ Arrive(r, c, "api", i, "none", <<>>)

NextCatch ==
    \/ ArriveApiC
    \/ \E r \in Slots : LimiterIncrement(r)
    \/ \E r \in Slots : LimiterDecide(r)
    \/ \E r \in Slots, code \in CatchCodes : UpstreamFails(r, code)
    \/ \E r \in Slots, code \in CatchCodes, st \in {404, 500} :
          UpstreamFailsWithResponse(r, code, st)
    \/ \E r \in Slots, sent \in BOOLEAN : RelayThrows(r, 200, sent)
    \/ \E r \in Slots : Finish(r)

SpecCatch == Init /\ [][NextCatch]_vars

\* Shutdown: requests that complete or hang, signals at any time.
ArriveApiS ==
    \E r \in Slots, c \in {"10.0.0.1"} :
        Room /\ Counting(c) < MaxHitsSmall /\ Arrive(r, c, "api", Absent, "none", <<>>)
\* a signal late enough that its grace timer lies beyond the clock's bound is
\* left out
SignalS == signals < MaxSignals /\ now + graceMs <= MaxNowShutdown /\ Signal
\* the clock jumps by half a grace period (5 s)
TickS == now + 5000 <= MaxNowShutdown /\ Tick(5000)

NextShutdown ==
    \/ ArriveApiS
    \/ \E r \in Slots : LimiterIncrement(r)
    \/ \E r \in Slots : LimiterDecide(r)
    \/ \E r \in Slots : UpstreamResponds(r, 200, JsonBody)
    \/ \E r \in Slots : Finish(r)
    \/ SignalS
    \/ ServerClosed
    \/ GraceTimerFires
    \/ TickS

SpecShutdown == Init /\ [][NextShutdown]_vars

\* The event loop keeps running: time passes, a due timer's callback runs,
\* and a pending promise continuation runs.
SpecShutdownFair ==
    /\ Init /\ [][NextShutdown]_vars
    /\ WF_vars(TickS)
    /\ WF_vars(GraceTimerFires)
    /\ WF_vars(\E r \in Slots : LimiterDecide(r))

\* ================================================================ claims

Min(a, b) == IF a < b THEN a ELSE b
Arrived(r) == reqs[r].resId # ""
\* requests of c counted in c's current window and waiting for the decision,
\* no later than 60th
PendingInQuota(c) ==
    Cardinality({r \in Slots : /\ reqs[r].stage = "counted"
                               /\ reqs[r].client = c
                               /\ reqs[r].win = store[c].resetTime
                               /\ reqs[r].totalHits <= 60})

\* C1: per client and window, under every interleaving of the limiter's
\* steps, exactly the first 60 requests counted are let through (those
\* decided plus those still waiting make min(count, 60)), never more than
\* 60, and a refused request is answered 429.
C1_AdmitUpToCapacity ==
    /\ \A c \in Clients :
          /\ admitted[c] <= 60
          /\ admitted[c] + PendingInQuota(c) = Min(store[c].totalHits, 60)
    /\ \A r \in Slots :
          /\ reqs[r].decision = "reject" => reqs[r].status = 429
          /\ (reqs[r].decision = "admit" /\ reqs[r].stage = "done") => reqs[r].status # 429

\* the 61st request was refused while the 60th, counted before it, still
\* waits for its decision
C1_Witness ==
    \E r, q \in Slots :
        /\ r # q
        /\ reqs[r].client = reqs[q].client
        /\ reqs[r].status = 429
        /\ reqs[q].stage = "counted"
        /\ reqs[q].totalHits = 60
        /\ store[reqs[q].client].totalHits = 61

\* C2: a request counted at a time >= window-start + 60 s opens a new
\* window for its client with count 1, and a request counted first in its
\* window is let through.
C2_WindowReset ==
    [][\A r \in Slots :
         /\ (/\ reqs[r].stage = "limiter"
             /\ reqs'[r].stage = "counted"
             /\ store[reqs[r].client].resetTime # 0
             /\ now >= store[reqs[r].client].windowStart + 60000)
            => /\ store'[reqs[r].client].totalHits = 1
               /\ store'[reqs[r].client].windowStart = now
               /\ reqs'[r].totalHits = 1
         /\ (/\ reqs[r].stage = "counted"
             /\ reqs[r].totalHits = 1
             /\ reqs'[r].stage # "counted")
            => reqs'[r].decision = "admit"
      ]_vars

\* a request opened a new window while a request of the same client refused
\* in the previous window is still being answered
C2_Witness ==
    \E r, q \in Slots :
        /\ r # q
        /\ reqs[r].client = reqs[q].client
        /\ reqs[q].decision = "reject"
        /\ reqs[r].stage = "counted"
        /\ reqs[r].totalHits = 1
        /\ now >= 60000
        /\ store[reqs[r].client].windowStart = now

\* C3: a request the limiter refused never reaches proxyRequest and no
\* upstream call is made for it.
C3_RejectedNotForwarded ==
    \A r \in Slots :
        reqs[r].decision = "reject" =>
            /\ ~reqs[r].proxied
            /\ reqs[r].calls = 0
            /\ reqs[r].hops = 0
            /\ reqs[r].backend = "none"
            /\ reqs[r].stage = "done"

C3_Witness ==
    \E r \in Slots : reqs[r].decision = "reject" /\ reqs[r].status = 429

C5_UnreachableIs503 ==
    \A r \in Slots :
        (reqs[r].stage = "done" /\ reqs[r].errCode \in {"ECONNREFUSED", "ENOTFOUND"}) =>
            /\ reqs[r].status = 503
            /\ reqs[r].resBody.error # ""
            /\ reqs[r].resBody.requestId = reqs[r].requestId
            /\ reqs[r].calls = 1

\* C6 (as claimed): whatever status the upstream returns within the
\* timeout, the gateway answers with that status and not through the
\* error mapping.
C6_UpstreamStatusRelayed ==
    \A r \in Slots :
        (reqs[r].stage = "done" /\ reqs[r].upStatus # 0) =>
            /\ reqs[r].status = reqs[r].upStatus
            /\ reqs[r].errCode = "none"

\* C7: when the timeout elapses first the request is answered 504 while
\* the upstream call is still open, and an answer arriving later changes
\* nothing: one write, status 504.
C7_TimeoutThenDiscard ==
    \A r \in Slots :
        /\ reqs[r].writes <= 1
        /\ reqs[r].errCode = "ECONNABORTED" =>
              /\ reqs[r].status = 504
              /\ reqs[r].writes = 1
              /\ reqs[r].resBody.error = "Backend service timeout"
              /\ reqs[r].backend \in {"pending", "answered"}

\* the upstream answered after the 504 had been written
C7_Witness ==
    \E r \in Slots :
        /\ reqs[r].errCode = "ECONNABORTED"
        /\ reqs[r].backend = "answered"
        /\ reqs[r].status = 504

\* C8: GET /health is answered 200 {"ok": true} at once, whatever the
\* caller's quota, without a step through the limiter, a change of any
\* window or an upstream call.
C8_HealthUnguarded ==
    [][\A r \in Slots :
         (reqs'[r].path = "health" /\ reqs[r].path # "health") =>
            /\ reqs'[r].stage = "done"
            /\ reqs'[r].status = 200
            /\ reqs'[r].resBody = Body("ok", "", "")
            /\ reqs'[r].writes = 1
            /\ reqs'[r].calls = 0
            /\ ~reqs'[r].proxied
            /\ store' = store
            /\ admitted' = admitted
      ]_vars

\* /health answered 200 for a client whose quota is used up, while a
\* forwarded request is being answered 503
C8_Witness ==
    \E r, q \in Slots :
        /\ reqs[r].path = "health"
        /\ reqs[r].status = 200
        /\ store[reqs[r].client].totalHits > 60
        /\ ~Expired(store[reqs[r].client], now)
        /\ reqs[q].status = 503

\* C9 (as claimed): a request the limiter let through has caused exactly
\* one upstream call by the time it is answered.
C9_ExactlyOneUpstreamCall ==
    \A r \in Slots :
        (reqs[r].decision = "admit" /\ reqs[r].stage = "done") => reqs[r].calls = 1

\* C10: exit code 0 only from the 'close' callback, with no request in
\* flight and the grace period after the first signal not over; exit code
\* 1 only once that grace period has expired with the server not closed.
C10_ExitCodes ==
    /\ exitCode \in {-1, 0, 1}
    /\ signals = 0 => exitCode = -1
    /\ exitCode = 0 =>
          /\ server = "closed"
          /\ InFlight = {}
          /\ now <= firstSignalAt + 10000
    /\ exitCode = 1 =>
          /\ server = "draining"
          /\ now >= firstSignalAt + 10000

\* forced exit after two signals, with a request still in flight
C10_Witness ==
    /\ exitCode = 1
    /\ signals = 2
    /\ InFlight # {}

Stopped == ~Running

\* C11: once a signal has been handled the server is never listening again
\* and takes no new connection; a stopped process stays stopped; while the
\* process still runs after a signal, the clock has not passed the first
\* signal's time + 10 s; and after a signal the process does stop, also with
\* a request that never completes and with further signals while draining.
C11_Lifecycle ==
    /\ [][/\ server # "listening" => server' # "listening"
          /\ server = "closed" => server' = "closed"
          /\ signals > 0 =>
                \A r \in Slots : reqs[r].stage = "idle" => reqs'[r].stage = "idle"
          /\ Stopped => Stopped'
         ]_vars
    /\ [](signals > 0 => server # "listening")
    /\ []((signals > 0 /\ Running) => now <= firstSignalAt + 10000)
    /\ [](Stopped => (signals > 0 /\ now <= firstSignalAt + 10000))
    /\ (signals > 0) ~> Stopped

\* forced stop exactly one grace period after the first of two signals, the
\* second one 5 s later, with a request that never completed
C11_Witness ==
    /\ Stopped
    /\ exitCode = 1
    /\ signals = 2
    /\ firstSignalAt = 0
    /\ now = 10000
    /\ timers = {10000, 15000}
    /\ \E r \in Slots : reqs[r].stage = "upstream"

\* C12: a response is written at most once on every path; an error caught
\* after the response had begun leaves that response as it is, writes
\* nothing and goes to next(error); an error caught before gets exactly one
\* response written.
C12_DoubleResponseGuard ==
    \A r \in Slots :
        /\ reqs[r].writes <= 1
        /\ (reqs[r].proxied /\ reqs[r].stage = "done") => reqs[r].writes = 1
        /\ reqs[r].errCode # "none" =>
              /\ reqs[r].headersSentAtCatch <=> reqs[r].escalated
              /\ reqs[r].escalated =>
                    /\ reqs[r].status \notin {502, 503, 504}
                    /\ reqs[r].resBody = Body("upstream", "", "")
              /\ ~reqs[r].escalated =>
                    \/ reqs[r].status \in {502, 503, 504}
                    \/ reqs[r].errResponse # 0 /\ reqs[r].status = reqs[r].errResponse
        /\ reqs[r].errCode = "none" => ~reqs[r].escalated

\* res.json threw after the upstream's 200 had begun to go out
C12_Witness ==
    \E r \in Slots :
        /\ reqs[r].escalated
        /\ reqs[r].headersSentAtCatch
        /\ reqs[r].writes = 1
        /\ reqs[r].status = 200

\* the outcomes of a forwarded request
Relayed(rec) ==
    /\ rec.errCode = "none" /\ rec.backend = "answered" /\ rec.writes = 1
    /\ rec.resBody.kind = "upstream"
Mapped(rec, s) ==
    /\ rec.errCode # "none" /\ ~rec.escalated /\ rec.writes = 1 /\ rec.status = s
    /\ rec.resBody.kind = "error" /\ rec.resBody.requestId = rec.requestId
Propagated(rec) == rec.errCode # "none" /\ rec.escalated
Outcomes(rec) ==
    {o \in {"relayed", "503", "504", "502", "next(error)"} :
        \/ o = "relayed" /\ Relayed(rec)
        \/ o = "503" /\ Mapped(rec, 503)
        \/ o = "504" /\ Mapped(rec, 504)
        \/ o = "502" /\ Mapped(rec, 502)
        \/ o = "next(error)" /\ Propagated(rec)}

\* C13: a request handed to proxyRequest leaves it (the upstream call ends,
\* by an answer, a failure or the timeout) and has then exactly one of the
\* outcomes relayed, 503, 504, 502, next(error); before that it has none.
C13_ForwarderTerminates ==
    /\ [](\A r \in Slots :
            /\ (reqs[r].proxied /\ reqs[r].stage = "done") =>
                   Cardinality(Outcomes(reqs[r])) = 1
            /\ reqs[r].proxied => reqs[r].stage \in {"upstream", "done"}
            /\ reqs[r].stage = "upstream" => Outcomes(reqs[r]) = {})
    /\ \A r \in Slots :
          (reqs[r].stage = "upstream") ~> (reqs[r].stage = "done" /\ reqs[r].proxied)

\* a failure that is neither refused nor a timeout ended in 502
C13_Witness ==
    \E r \in Slots :
        /\ reqs[r].stage = "done"
        /\ reqs[r].errCode = "ENOTFOUND"
        /\ Outcomes(reqs[r]) = {"502"}

\* C14: an error caught by proxyRequest that is an axios error with code
\* ECONNREFUSED is answered 503 and one with ETIMEDOUT or ECONNABORTED 504,
\* with or without a carried response; any other error that carries a
\* response is answered with that response's status and body; any other
\* error without one, caught before anything was written, is answered 502
\* {error: "bad gateway", requestId}.
C14_FailureClassification ==
    \A r \in Slots :
        (reqs[r].stage = "done" /\ reqs[r].errCode # "none") =>
            LET rec == reqs[r]
                refused == rec.errAxios /\ rec.errCode = "ECONNREFUSED"
                timedOut == rec.errAxios /\ rec.errCode \in {"ETIMEDOUT", "ECONNABORTED"}
            IN  /\ refused => rec.status = 503 /\ rec.resBody.kind = "error"
                /\ timedOut => rec.status = 504 /\ rec.resBody.kind = "error"
                /\ (~refused /\ ~timedOut /\ rec.errResponse # 0) =>
                      /\ rec.status = rec.errResponse
                      /\ rec.resBody = Body("upstream", "", "")
                /\ (~refused /\ ~timedOut /\ rec.errResponse = 0
                       /\ ~rec.headersSentAtCatch) =>
                      /\ rec.status = 502
                      /\ rec.resBody = Body("error", "bad gateway", rec.requestId)

\* a refused connection reported together with a response: 503 wins
C14_Witness ==
    \E r \in Slots :
        /\ reqs[r].stage = "done"
        /\ reqs[r].errCode = "ECONNREFUSED"
        /\ reqs[r].errResponse = 500
        /\ reqs[r].status = 503

\* the upstream body is JSON text
Structured(raw) == raw \in {JsonBody, SpacedJsonBody}

\* C15 (as claimed): the body sent for a relayed upstream response is the
\* upstream body itself when that body is not JSON (plain text), and
\* JSON text of the same value when it is.
C15_BodyRelayFidelity ==
    \A r \in Slots :
        (reqs[r].stage = "done" /\ reqs[r].errCode = "none"
           /\ reqs[r].backend = "answered") =>
            IF Structured(reqs[r].upBody)
            THEN JSONParse(reqs[r].sentBody) = JSONParse(reqs[r].upBody)
            ELSE reqs[r].sentBody = reqs[r].upBody

HeaderNames(hs) == {h[1] : h \in hs}
HeaderValue(hs, name) == CHOOSE v \in {h[2] : h \in {g \in hs : g[1] = name}} : TRUE

\* C16 (as claimed): the data of the upstream call is the inbound body (the
\* empty object standing for no body), and the upstream headers hold a
\* Content-Type exactly when the inbound request has a non-empty body, with
\* the inbound content-type as its value.
C16_BodyAndContentType ==
    \A r \in Slots :
        reqs[r].proxied =>
            /\ reqs[r].upData =
                  (IF reqs[r].body = "none" THEN EmptyObject
                   ELSE ResponseData(InboundBody(reqs[r].body)))
            /\ ("Content-Type" \in HeaderNames(reqs[r].upHeaders))
                  <=> (InboundBody(reqs[r].body) # "")
            /\ "Content-Type" \in HeaderNames(reqs[r].upHeaders) =>
                  HeaderValue(reqs[r].upHeaders, "Content-Type") = ContentType(reqs[r].body)

HopByHop ==
    {"host", "Host", "connection", "Connection", "keep-alive", "Keep-Alive",
     "transfer-encoding", "Transfer-Encoding", "te", "TE", "trailer", "Trailer",
     "upgrade", "Upgrade", "proxy-authorization", "Proxy-Authorization",
     "proxy-authenticate", "Proxy-Authenticate"}

\* C17: the headers of every upstream request hold no Host, Connection or
\* other hop-by-hop header, and hold X-Forwarded-For with the client's
\* address, X-Forwarded-Proto and x-request-id with the correlation id.
C17_ForwardingHeaders ==
    \A r \in Slots :
        reqs[r].proxied =>
            /\ HeaderNames(reqs[r].upHeaders) \cap HopByHop = {}
            /\ <<"X-Forwarded-For", reqs[r].client>> \in reqs[r].upHeaders
            /\ <<"X-Forwarded-Proto", "http">> \in reqs[r].upHeaders
            /\ <<"x-request-id", reqs[r].resId>> \in reqs[r].upHeaders
            /\ HeaderNames(reqs[r].upHeaders) \subseteq
                  {"X-Forwarded-For", "X-Forwarded-Proto", "x-request-id", "Content-Type"}

\* a request with Host, Connection, Keep-Alive and Transfer-Encoding headers
\* and a JSON body was forwarded
C17_Witness ==
    \E r \in Slots :
        /\ reqs[r].proxied
        /\ reqs[r].body = "json"
        /\ reqs[r].inId = "ABC"
        /\ {"host", "connection", "keep-alive", "transfer-encoding"}
              \subseteq HeaderNames(InboundHeaders(reqs[r]))
        /\ Cardinality(reqs[r].upHeaders) = 4

Occurrences(query, k) == Cardinality({i \in 1..Len(query) : query[i][1] = k})

\* C20 (as claimed): the upstream URL is the backend base URL followed by
\* the inbound path and query, and every inbound query parameter occurs in
\* it as often as in the inbound query.
C20_QueryOnce ==
    \A r \in Slots :
        reqs[r].proxied =>
            /\ reqs[r].upUrl.base = backendUrl
            /\ reqs[r].upUrl.path = UrlPath(reqs[r].path)
            /\ \A k \in {"a", "b"} :
                  Occurrences(reqs[r].upUrl.query, k) = Occurrences(reqs[r].query, k)

Phases(rec) == {rec.logs[i].phase : i \in 1..Len(rec.logs)}
Position(rec, phase) == CHOOSE i \in 1..Len(rec.logs) : rec.logs[i].phase = phase

\* C18 (as claimed): by the time the limiter has decided on a request, a
\* "received" event with the request's id has been logged; the "outbound"
\* event is logged by the time the upstream call is made, and the event for
\* the call's result comes after it.
C18_StageOrder ==
    \A r \in Slots :
        /\ reqs[r].decision # "none" =>
              \E i \in 1..Len(reqs[r].logs) :
                  reqs[r].logs[i] = LogEvent("received", reqs[r].requestId)
        /\ reqs[r].calls > 0 => "outbound" \in Phases(reqs[r])
        /\ \A p \in {"inbound", "error"} :
              p \in Phases(reqs[r]) =>
                  /\ "outbound" \in Phases(reqs[r])
                  /\ Position(reqs[r], "outbound") < Position(reqs[r], p)

Summaries(rec) == {i \in 1..Len(rec.logs) : rec.logs[i].phase = "summary"}

\* C19 (as claimed): a request that is over has logged exactly one summary
\* event, with its id, however it ended; a request still in flight none.
C19_SummaryOnce ==
    \A r \in Slots :
        /\ (Free(r) /\ Arrived(r)) =>
              /\ Cardinality(Summaries(reqs[r])) = 1
              /\ LogEvent("summary", reqs[r].requestId) = reqs[r].logs[Len(reqs[r].logs)]
        /\ ~Free(r) => Summaries(reqs[r]) = {}

====
